---------------------------- MODULE Spec2Model ----------------------------
(***************************************************************************)
(* A model of slotgraph.py: the apriori-style miner of connected,          *)
(* same-symbol clusters on a rectangular screen of symbols.                *)
(*                                                                         *)
(* A screen is a sequence of rows, each a sequence of symbols;             *)
(* screen[y + 1][x + 1] is the symbol of the cell in row y, column x.      *)
(* A Node is the record [x, y, symbol] (the namedtuple of the source).     *)
(* A pattern is a set of Nodes, a pattern list a sequence of patterns.     *)
(*                                                                         *)
(* Spec      : one call apriori(screen, min_support), stepped through the  *)
(*             statements of the function.                                 *)
(* FairSpec  : Spec with the interpreter always taking the next step.      *)
(* SpecGrow  : one call grow(node_list) on an arbitrary list of distinct   *)
(*             node sets of one size.                                      *)
(***************************************************************************)
EXTENDS Integers, Sequences, FiniteSets, TLC

\* ------------------------------------------------------------------ bounds
\* Screens have 1..MaxRows rows and 1..MaxReels columns.
MaxRows == 2
MaxReels == 3
\* min_support ranges over 1..MaxSupport.
MaxSupport == 4
\* grow is called on lists of at most MaxLen sets over UniverseSize nodes.
UniverseSize == 4
MaxLen == 3

\* The first two symbols of the alphabet of the source.
Symbols == {"A", "B"}

VARIABLES
    screen,         \* apriori: the parameter screen
    min_support,    \* apriori: the parameter min_support
    pc,             \* position in the function being executed
    nodes,          \* apriori: the local nodes
    pattern_list,   \* apriori: the local pattern_list
    i,              \* apriori: the next value of range(2, min_support)
    iterations,     \* history: completed executions of the loop body
    result,         \* apriori: the returned value
    node_list,      \* grow: the parameter node_list
    new_list        \* grow: the returned new_list

vars == <<screen, min_support, pc, nodes, pattern_list, i, iterations,
          result, node_list, new_list>>

\* ------------------------------------------------------------ Node, nodes
Node(x, y, symbol) == [x |-> x, y |-> y, symbol |-> symbol]

\* A plausible slip: the symbol is always read from the first row.
NodeAtFirstRow(scr, x, y) == Node(x, y, scr[1][x + 1])

\* The element the comprehension builds for row y, column x.
NodeAt(scr, x, y) == Node(x, y, scr[y + 1][x + 1])

RECURSIVE RowNodes(_, _, _)
\* The inner loop: for x, symbol in enumerate(symbols), from column x on.
RowNodes(scr, y, x) ==
    IF x >= Len(scr[y + 1]) THEN <<>>
    ELSE <<NodeAt(scr, x, y)>> \o RowNodes(scr, y, x + 1)

RECURSIVE ResolveNodesFrom(_, _)
\* The outer loop: for y, symbols in enumerate(screen), from row y on.
ResolveNodesFrom(scr, y) ==
    IF y >= Len(scr) THEN <<>>
    ELSE RowNodes(scr, y, 0) \o ResolveNodesFrom(scr, y + 1)

ResolveNodes(scr) == ResolveNodesFrom(scr, 0)

\* ------------------------------------------------------- frequency filter
\* symbols.count(symbol) over the symbols of the node list.
SymbolCount(ns, symbol) ==
    Cardinality({k \in DOMAIN ns : ns[k].symbol = symbol})

\* db: symbol -> number of occurrences, for the symbols present.
Db(ns) == [symbol \in {ns[k].symbol : k \in DOMAIN ns} |-> SymbolCount(ns, symbol)]

\* A plausible slip: a strict comparison.
MeetsSupportStrict(count, ms) == count > ms

MeetsSupport(count, ms) == count >= ms

\* final: the entries of db meeting the minimum support (its keys).
Final(ns, ms) == {symbol \in DOMAIN Db(ns) : MeetsSupport(Db(ns)[symbol], ms)}

FilterNodes(ns, ms) ==
    LET final == Final(ns, ms)
    IN  SelectSeq(ns, LAMBDA node : node.symbol \in final)

\* ------------------------------------------------------------------ prune
\* The set of symbols of a set of nodes.
SymbolSet(current_set) == {node.symbol : node \in current_set}

\* A plausible slip: nothing is filtered.
KeepsAll(current_set) == TRUE

Keeps(current_set) == Cardinality(SymbolSet(current_set)) = 1

prune(set_list) == SelectSeq(set_list, Keeps)

\* ------------------------------------------------------------------- grow
InList(s, list) == \E k \in DOMAIN list : list[k] = s

\* Plausible slips: the membership test is dropped; the size test is loosened.
AcceptsNoDedup(new_set, s1, list) == Cardinality(new_set) = Cardinality(s1) + 1

AcceptsAnyGrowth(new_set, s1, list) ==
    Cardinality(new_set) >= Cardinality(s1) + 1 /\ ~InList(new_set, list)

Accepts(new_set, s1, list) ==
    LET target_length == Cardinality(s1) + 1
    IN  Cardinality(new_set) = target_length /\ ~InList(new_set, list)

\* In the loops below the list built so far is bound as the one member of a
\* set, so that it is a value when the next round reads it, as new_list and
\* pattern_list are in the source.
RECURSIVE GrowInner(_, _, _, _)
\* The combinations (a, b), b = from..Len(list), in the order of itertools.
GrowInner(list, a, from, acc) ==
    IF from > Len(list) THEN acc
    ELSE LET new_set == list[a] \cup list[from]
             appended == IF Accepts(new_set, list[a], acc)
                         THEN Append(acc, new_set) ELSE acc
         IN  CHOOSE r \in {GrowInner(list, a, from + 1, l) : l \in {appended}} : TRUE

RECURSIVE GrowOuter(_, _, _)
GrowOuter(list, a, acc) ==
    IF a >= Len(list) THEN acc
    ELSE CHOOSE r \in {GrowOuter(list, a + 1, l) :
                           l \in {GrowInner(list, a, a + 1, acc)}} : TRUE

grow(list) == GrowOuter(list, 1, <<>>)

\* ------------------------------------------------------------ seed pairs
\* Plausible slips: a test has the wrong sign.
MatchDownUp(n1, n2) == n1.x = n2.x /\ n1.y = n2.y + 1

MatchRightLeft(n1, n2) == n1.x = n2.x + 1 /\ n1.y = n2.y

MatchDown(n1, n2) == n1.x = n2.x /\ n1.y = n2.y - 1

MatchRight(n1, n2) == n1.x = n2.x - 1 /\ n1.y = n2.y

RECURSIVE PairsInner(_, _, _, _)
PairsInner(ns, a, from, acc) ==
    IF from > Len(ns) THEN acc
    ELSE LET match_down == MatchDown(ns[a], ns[from])
             match_right == MatchRight(ns[a], ns[from])
             appended == IF match_right \/ match_down
                         THEN Append(acc, {ns[a], ns[from]}) ELSE acc
         IN  CHOOSE r \in {PairsInner(ns, a, from + 1, l) : l \in {appended}} : TRUE

RECURSIVE PairsOuter(_, _, _)
PairsOuter(ns, a, acc) ==
    IF a >= Len(ns) THEN acc
    ELSE CHOOSE r \in {PairsOuter(ns, a + 1, l) :
                           l \in {PairsInner(ns, a, a + 1, acc)}} : TRUE

ResolvePairs(ns) == PairsOuter(ns, 1, <<>>)

\* ------------------------------------------------------------- the loop
\* A plausible slip: the range runs one value too far.
InRangeInclusive(k, ms) == k <= ms

\* Whether range(2, min_support) still yields the value k.
InRange(k, ms) == k < ms

\* ------------------------------------------------------------- apriori
Screens ==
    UNION {[1..r -> [1..c -> Symbols]] : r \in 1..MaxRows, c \in 1..MaxReels}

Init ==
    /\ screen \in Screens
    /\ min_support \in 1..MaxSupport
    /\ pc = "start"
    /\ nodes = <<>>
    /\ pattern_list = <<>>
    /\ i = 0
    /\ iterations = 0
    /\ result = <<>>
    /\ node_list = <<>>
    /\ new_list = <<>>

\* Lines 104-112: the nodes, the counts, the filter.
Resolve ==
    /\ pc = "start"
    /\ nodes' = FilterNodes(ResolveNodes(screen), min_support)
    /\ pc' = "filtered"
    /\ UNCHANGED <<screen, min_support, pattern_list, i, iterations, result,
                   node_list, new_list>>

\* Lines 114-115: the degenerate case.
ReturnNodes ==
    /\ pc = "filtered"
    /\ min_support = 1
    /\ result' = nodes
    /\ pc' = "done"
    /\ UNCHANGED <<screen, min_support, nodes, pattern_list, i, iterations,
                   node_list, new_list>>

\* Lines 117-125: the seed pairs.
Pair ==
    /\ pc = "filtered"
    /\ min_support # 1
    /\ pattern_list' = ResolvePairs(nodes)
    /\ pc' = "paired"
    /\ UNCHANGED <<screen, min_support, nodes, i, iterations, result,
                   node_list, new_list>>

\* Line 127, and the loop is entered: range(2, min_support) starts at 2.
PruneSeed ==
    /\ pc = "paired"
    /\ pattern_list' = prune(pattern_list)
    /\ i' = 2
    /\ pc' = "loop"
    /\ UNCHANGED <<screen, min_support, nodes, iterations, result,
                   node_list, new_list>>

\* Lines 130-131: the range yields i, and the list is grown.
Grow ==
    /\ pc = "loop"
    /\ InRange(i, min_support)
    /\ pattern_list' = grow(pattern_list)
    /\ pc' = "grown"
    /\ UNCHANGED <<screen, min_support, nodes, i, iterations, result,
                   node_list, new_list>>

\* Line 132, and the range advances.
Prune ==
    /\ pc = "grown"
    /\ pattern_list' = prune(pattern_list)
    /\ i' = i + 1
    /\ iterations' = iterations + 1
    /\ pc' = "loop"
    /\ UNCHANGED <<screen, min_support, nodes, result, node_list, new_list>>

\* Line 137: the range is exhausted.
Return ==
    /\ pc = "loop"
    /\ ~InRange(i, min_support)
    /\ result' = pattern_list
    /\ pc' = "done"
    /\ UNCHANGED <<screen, min_support, nodes, pattern_list, i, iterations,
                   node_list, new_list>>

Next ==
    \/ Resolve
    \/ ReturnNodes
    \/ Pair
    \/ PruneSeed
    \/ Grow
    \/ Prune
    \/ Return

Spec == Init /\ [][Next]_vars

\* The interpreter runs the function to its end: no step waits on anything.
FairSpec == Spec /\ WF_vars(Next)

\* ------------------------------------------------------- grow on its own
Universe == {Node(x, 0, IF x % 2 = 0 THEN "A" ELSE "B") : x \in 0..(UniverseSize - 1)}

\* The sets of k nodes of the universe.
SetsOfSize(k) == {s \in SUBSET Universe : Cardinality(s) = k}

\* The lists of n distinct members of S.
DistinctLists(S, n) ==
    {l \in [1..n -> S] : \A a, b \in 1..n : a # b => l[a] # l[b]}

GrowInputs ==
    UNION {DistinctLists(SetsOfSize(k), n) : k \in 1..UniverseSize, n \in 0..MaxLen}

InitGrow ==
    /\ node_list \in GrowInputs
    /\ new_list = <<>>
    /\ pc = "grow_call"
    /\ screen = <<>>
    /\ min_support = 1
    /\ nodes = <<>>
    /\ pattern_list = <<>>
    /\ i = 0
    /\ iterations = 0
    /\ result = <<>>

GrowCall ==
    /\ pc = "grow_call"
    /\ new_list' = grow(node_list)
    /\ pc' = "grow_done"
    /\ UNCHANGED <<screen, min_support, nodes, pattern_list, i, iterations,
                   result, node_list>>

NextGrow == GrowCall

SpecGrow == InitGrow /\ [][NextGrow]_vars


\* --------------------------------------------- vocabulary of the properties
\* The cells of the screen, read off the screen itself.
AllCells ==
    {Node(x, y, screen[y + 1][x + 1]) :
        y \in 0..(Len(screen) - 1), x \in 0..(Len(screen[1]) - 1)}

\* The number of cells of the screen that carry the symbol.
GridCount(symbol) == Cardinality({n \in AllCells : n.symbol = symbol})

Abs(v) == IF v < 0 THEN -v ELSE v

\* Horizontal or vertical neighbours.
Adjacent(n1, n2) == Abs(n1.x - n2.x) + Abs(n1.y - n2.y) = 1

RECURSIVE Reach(_, _)
\* The nodes of S reachable from R by steps between neighbours inside S.
Reach(S, R) ==
    LET more == R \cup {n \in S : \E m \in R : Adjacent(n, m)}
    IN  IF more = R THEN R ELSE Reach(S, more)

Connected(S) == S # {} /\ Reach(S, {CHOOSE n \in S : TRUE}) = S

Uniform(S) == \A n1, n2 \in S : n1.symbol = n2.symbol

ToSet(list) == {list[k] : k \in DOMAIN list}

NoDuplicates(list) == \A a, b \in DOMAIN list : a # b => list[a] # list[b]

\* The nodes of one returned entry: for min_support = 1 the entry is a Node,
\* otherwise a set of Nodes.
EntryNodes(entry) == IF min_support = 1 THEN {entry} ELSE entry

\* The connected same-symbol sets of k cells.
Clusters(k) ==
    {S \in SUBSET AllCells : Cardinality(S) = k /\ Uniform(S) /\ Connected(S)}

\* ----------------------------------------------------------------- claims
\* C1: for min_support >= 2 the groups apriori returns are exactly the
\* connected (4-neighbour) same-symbol node sets of size min_support.
C1_ExactlyTheClusters ==
    (pc = "done" /\ min_support >= 2) => ToSet(result) = Clusters(min_support)

C1_Witness ==
    /\ pc = "done"
    /\ min_support = 4
    /\ Cardinality(ToSet(result)) >= 2
    /\ Cardinality(SymbolSet(AllCells)) = 2

C3_Uniformity ==
    /\ pc = "loop" => \A k \in DOMAIN pattern_list : Uniform(pattern_list[k])
    /\ (pc = "done" /\ min_support >= 2) =>
           \A k \in DOMAIN result :
               Cardinality(result[k]) >= 2 => Uniform(result[k])

C3_Witness ==
    /\ pc = "loop"
    /\ iterations = 0
    /\ pattern_list # <<>>
    /\ \E n1, n2 \in ToSet(nodes) : Adjacent(n1, n2) /\ n1.symbol # n2.symbol

\* C4: no two entries at different positions of the returned collection, of
\* the seed pair list or of any stage's collection are the same node set.
C4_Uniqueness == NoDuplicates(pattern_list) /\ NoDuplicates(result)

C4_Witness == pc = "grown" /\ i = 3 /\ pattern_list # <<>>

\* C5: no node whose symbol occurs fewer than min_support times on the screen
\* appears in the final result.
C5_FrequencyBootstrap ==
    pc = "done" =>
        \A k \in DOMAIN result :
            \A n \in EntryNodes(result[k]) : GridCount(n.symbol) >= min_support

C5_Witness ==
    /\ pc = "done"
    /\ result # <<>>
    /\ \E n \in AllCells : GridCount(n.symbol) < min_support

\* C6: for min_support = 1 apriori pairs and grows nothing and returns the
\* filtered node list, which is the full node list in row-major order.
C6_DegenerateCase ==
    (pc = "done" /\ min_support = 1) =>
        LET reels == Len(screen[1])
        IN  /\ result = nodes
            /\ Len(result) = Len(screen) * reels
            /\ \A k \in DOMAIN result :
                   result[k] = Node((k - 1) % reels, (k - 1) \div reels,
                                    screen[((k - 1) \div reels) + 1][((k - 1) % reels) + 1])
            /\ pattern_list = <<>>
            /\ iterations = 0

C6_Witness ==
    /\ pc = "done"
    /\ min_support = 1
    /\ Len(result) = 6
    /\ Cardinality(SymbolSet(AllCells)) = 2

\* C7: the pair list before pruning holds each unordered pair of adjacent
\* surviving nodes exactly once, and nothing else.
C7_SeedPairing ==
    pc = "paired" =>
        /\ \A k \in DOMAIN pattern_list :
               \E n1, n2 \in ToSet(nodes) :
                   Adjacent(n1, n2) /\ pattern_list[k] = {n1, n2}
        /\ \A n1, n2 \in ToSet(nodes) :
               Adjacent(n1, n2) =>
                   Cardinality({k \in DOMAIN pattern_list :
                                    pattern_list[k] = {n1, n2}}) = 1

C7_Witness ==
    /\ pc = "paired"
    /\ Len(pattern_list) >= 3
    /\ Len(nodes) < Cardinality(AllCells)
    /\ \E k \in DOMAIN pattern_list : \A n1, n2 \in pattern_list[k] : n1.x = n2.x
    /\ \E k \in DOMAIN pattern_list : \A n1, n2 \in pattern_list[k] : n1.y = n2.y

\* C8: grow of a list of distinct node sets of size k is a duplicate-free
\* list of exactly the unions of two input sets that have k + 1 nodes; it is
\* empty when there are fewer than two input sets.
C8_GrowthStep ==
    pc = "grow_done" =>
        /\ NoDuplicates(new_list)
        /\ ToSet(new_list) =
               {u \in {s1 \cup s2 : s1, s2 \in ToSet(node_list)} :
                    Cardinality(u) = Cardinality(node_list[1]) + 1}
        /\ Len(node_list) < 2 => new_list = <<>>

C8_Witness ==
    /\ pc = "grow_done"
    /\ Len(new_list) >= 2
    /\ \E a, b \in DOMAIN node_list :
           Cardinality(node_list[a] \cup node_list[b]) > Cardinality(node_list[1]) + 1

\* C9: apriori terminates; for min_support >= 2 the stage size starts at 2,
\* grows by exactly 1 per grow+prune iteration, and the loop stops after
\* exactly min_support - 2 iterations, at stage size min_support.
C9_Stage ==
    /\ pc = "loop" =>
           /\ i = 2 + iterations
           /\ i <= min_support
           /\ \A k \in DOMAIN pattern_list : Cardinality(pattern_list[k]) = i
    /\ (pc = "done" /\ min_support >= 2) =>
           /\ iterations = min_support - 2
           /\ i = min_support

C9_StageStep ==
    \/ i' = i /\ iterations' = iterations
    \/ pc = "paired" /\ i' = 2 /\ iterations' = iterations
    \/ pc = "grown" /\ pc' = "loop" /\ i' = i + 1 /\ iterations' = iterations + 1

C9_Termination == <>(pc = "done") /\ []C9_Stage /\ [][C9_StageStep]_vars

C9_Witness == pc = "done" /\ min_support = 4 /\ iterations = 2 /\ result # <<>>

\* C10: in the growth loop the prune call after grow removes nothing.
C10_PruneAfterGrowIsIdentity ==
    pc = "grown" => prune(pattern_list) = pattern_list

C10_Witness ==
    /\ pc = "grown"
    /\ Len(pattern_list) >= 2
    /\ Cardinality(SymbolSet(ToSet(nodes))) = 2

=============================================================================
